---- MODULE Spec2Model ----
(***************************************************************************)
(* gathertool: the request context (src/context.go).                       *)
(*                                                                         *)
(* One Context and one top-level call of Context.Do().  Do() is a          *)
(* recursive procedure (the retry paths end in `return c.Do()`), so the    *)
(* model keeps the stack of its activations and the position of the        *)
(* innermost one; every step of Do() between two observable events (a hook *)
(* invocation, the network call, a deferred Body.Close) is one action.     *)
(*                                                                         *)
(* A hook (StartFunc, EndFunc, RetryFunc, FailedFunc, SucceedFunc) is      *)
(* caller code: the model records that it was invoked and the Context      *)
(* fields it was handed, and takes it to return without touching times or  *)
(* MaxTimes.                                                               *)
(***************************************************************************)
EXTENDS Integers, Sequences, FiniteSets, TLC

\* Largest MaxTimes tried (SetRetryTimes takes any int).
MaxRetry == 3

\* Number of distinct response bodies the transport may hand back.
NumBodies == 2

Bodies == 1..NumBodies

\* RespBody before any body was read (a nil []byte).
NoBody == 0

\* The status-code table.  It is consulted at src/context.go:179 but defined
\* in a file that is not part of src/; its categories are those of spec.md
\* (success, retry, fail, start, end).  One representative code per
\* category; UnmappedCode stands for any code absent from the table.
StatusCodeMap ==
    (200 :> "success") @@ (500 :> "retry") @@ (404 :> "fail")
        @@ (100 :> "start") @@ (101 :> "end")

UnmappedCode == 418

StatusCodes == DOMAIN StatusCodeMap \cup {UnmappedCode}

\* c.Resp == nil
NoResp == [id |-> 0, StatusCode |-> 0, Body |-> 0]

VARIABLES
    times,        \* c.times
    MaxTimes,     \* c.MaxTimes
    StartFunc,    \* c.StartFunc != nil
    EndFunc,      \* c.EndFunc != nil
    RetryFunc,    \* c.RetryFunc != nil
    FailedFunc,   \* c.FailedFunc != nil
    SucceedFunc,  \* c.SucceedFunc != nil
    Resp,         \* c.Resp (NoResp is nil); id names the response object
    Err,          \* c.Err: "none" (nil), "timeout" (an error whose text has
                  \* "(Client.Timeout exceeded while awaiting headers)"),
                  \* "other" (any other error)
    RespBody,     \* c.RespBody
    pc,           \* position of the innermost activation of Do()
    frames,       \* activations of Do(): TRUE when the activation has
                  \* registered its deferred Body.Close (line 170)
    entry,        \* number of activations of Do() so far
    closed,       \* ids of the responses whose Body was closed
    log,          \* the events so far, in order
    cookie,       \* CookiePool.cookie: the slice of cookies
    mux,          \* CookiePool.mux: 0 when unlocked, else the goroutine
                  \* that holds it
    call,         \* per goroutine: its call of Add or Get in progress
    panicked,     \* a goroutine panicked: the process is gone
    added,        \* the cookies whose Add has returned
    begun,        \* number of calls of Add and Get begun
    gotten,       \* what the calls of Get that returned have returned
    queue,        \* the task queue (gt.NewQueue()): the tasks waiting
    inflight,     \* the scheduler's count of tasks popped and not yet done
    job,          \* per worker of StartJobGet: where it is, and its task
    requeued,     \* per task: how often GetIPFailed put it back
    runs,         \* per task: how often its Execute has returned
    returned      \* StartJobGet has returned

hooks == <<StartFunc, EndFunc, RetryFunc, FailedFunc, SucceedFunc>>
\* The cookie pool (lines 332-351), shared by all goroutines.
pool == <<cookie, mux, call, panicked, added, begun, gotten>>

\* What no step of Do() and Upload() touches: the settings of the Context
\* and what lies outside of it.
\* The job scheduler and its queue.
sched == <<queue, inflight, job, requeued, runs, returned>>

config == <<MaxTimes, StartFunc, EndFunc, RetryFunc, FailedFunc, SucceedFunc,
            pool, sched>>

\* The Context.
context == <<times, MaxTimes, StartFunc, EndFunc, RetryFunc, FailedFunc,
             SucceedFunc, Resp, Err, RespBody, pc, frames, entry, closed, log>>

vars == <<context, pool, sched>>

\* An event of activation n, with the Context fields visible at that moment.
\* ("Client.Do" carries what the call returned, "ReadAll" the error of
\* ioutil.ReadAll in Err.)
Event(name, n, t, resp, err, body) ==
    [ev |-> name, entry |-> n, times |-> t, Resp |-> resp, Err |-> err,
     RespBody |-> body]

\* Number of goroutines that use the shared structures.
NumWorkers == 2

Workers == 1..NumWorkers

\* A goroutine that is in no call of Add or Get.
NoCall == [pc |-> "idle", arg |-> 0, tmp |-> <<>>, seen |-> {}, ret |-> 0]

\* var CookiePool = &cookiePool{} (line 338): no cookie, mutex unlocked.
PoolInit ==
    /\ cookie = <<>>
    /\ mux = 0
    /\ call = [w \in Workers |-> NoCall]
    /\ panicked = FALSE
    /\ added = {}
    /\ begun = 0
    /\ gotten = {}

\* Number of tasks the caller puts into the queue.
NumTasks == 2

Tasks == 1..NumTasks

\* var queue = gt.NewQueue() (main.go:135): empty, and no job started.
SchedInit ==
    /\ queue = <<>>
    /\ inflight = 0
    /\ job = [w \in Workers |-> [pc |-> "none", task |-> 0, waited |-> FALSE]]
    /\ requeued = [t \in Tasks |-> 0]
    /\ runs = [t \in Tasks |-> 0]
    /\ returned = FALSE

\* A freshly built Context: times is 0, nothing requested yet.
Init ==
    /\ PoolInit
    /\ SchedInit
    /\ times = 0
    /\ MaxTimes \in 0..MaxRetry
    /\ StartFunc \in BOOLEAN
    /\ EndFunc \in BOOLEAN
    /\ RetryFunc \in BOOLEAN
    /\ FailedFunc \in BOOLEAN
    /\ SucceedFunc \in BOOLEAN
    /\ Resp = NoResp
    /\ Err = "none"
    /\ RespBody = NoBody
    /\ pc = "idle"
    /\ frames = <<>>
    /\ entry = 0
    /\ closed = {}
    /\ log = <<>>

\* A new activation of Do(): the top-level call or `return c.Do()`.
\* c is never nil here (line 125).
Enter ==
    /\ frames' = Append(frames, FALSE)
    /\ entry' = entry + 1
    /\ pc' = "start"

\* The caller calls c.Do().
Do ==
    /\ pc = "idle"
    /\ Enter
    /\ UNCHANGED <<times, config, Resp, Err, RespBody, closed, log>>

\* DoStartFunc without the test of c.times.
DoStartFunc_EveryEntry ==
    /\ pc = "start"
    /\ log' = IF StartFunc
                THEN Append(log, Event("StartFunc", entry, times, Resp, Err, RespBody))
                ELSE log
    /\ pc' = "end"
    /\ UNCHANGED <<times, config, Resp, Err, RespBody, frames, entry, closed>>

\* Lines 131-133.
DoStartFunc ==
    /\ pc = "start"
    /\ log' = IF times = 0 /\ StartFunc
                THEN Append(log, Event("StartFunc", entry, times, Resp, Err, RespBody))
                ELSE log
    /\ pc' = "end"
    /\ UNCHANGED <<times, config, Resp, Err, RespBody, frames, entry, closed>>

\* DoEndFunc testing c.times >= c.MaxTimes.
DoEndFunc_AtOrPast ==
    /\ pc = "end"
    /\ log' = IF times >= MaxTimes /\ EndFunc
                THEN Append(log, Event("EndFunc", entry, times, Resp, Err, RespBody))
                ELSE log
    /\ pc' = "budget"
    /\ UNCHANGED <<times, config, Resp, Err, RespBody, frames, entry, closed>>

\* Lines 136-138.
DoEndFunc ==
    /\ pc = "end"
    /\ log' = IF times = MaxTimes /\ EndFunc
                THEN Append(log, Event("EndFunc", entry, times, Resp, Err, RespBody))
                ELSE log
    /\ pc' = "budget"
    /\ UNCHANGED <<times, config, Resp, Err, RespBody, frames, entry, closed>>

\* BudgetExceeded with the comparison off by one.
BudgetExceeded_OffByOne(t, m) == t > m + 1

\* Line 142: the retry budget is used up.
BudgetExceeded(t, m) == t > m

\* DoBudget counting an activation twice.
DoBudget_CountsTwice ==
    /\ pc = "budget"
    /\ times' = times + 2
    /\ IF BudgetExceeded(times', MaxTimes)
         THEN /\ log' = Append(log, Event("exceeded", entry, times', Resp, Err, RespBody))
              /\ pc' = "return"
         ELSE /\ log' = log
              /\ pc' = "request"
    /\ UNCHANGED <<config, Resp, Err, RespBody, frames, entry, closed>>

\* DoBudget testing the budget before c.times++ instead of after it.
DoBudget_ChecksFirst ==
    /\ pc = "budget"
    /\ times' = times + 1
    /\ IF BudgetExceeded(times, MaxTimes)
         THEN /\ log' = Append(log, Event("exceeded", entry, times', Resp, Err, RespBody))
              /\ pc' = "return"
         ELSE /\ log' = log
              /\ pc' = "request"
    /\ UNCHANGED <<config, Resp, Err, RespBody, frames, entry, closed>>

\* Lines 141-145.
DoBudget ==
    /\ pc = "budget"
    /\ times' = times + 1
    /\ IF BudgetExceeded(times', MaxTimes)
         THEN /\ log' = Append(log, Event("exceeded", entry, times', Resp, Err, RespBody))
              /\ pc' = "return"
         ELSE /\ log' = log
              /\ pc' = "request"
    /\ UNCHANGED <<config, Resp, Err, RespBody, frames, entry, closed>>

\* What c.Client.Do(c.Req) may return: an error and no response (net/http
\* hands back a nil Response with an error, or one already closed), or a
\* response carrying a status code and a body.
Outcomes(n) ==
    {[Resp |-> NoResp, Err |-> e] : e \in {"timeout", "other"}}
      \cup {[Resp |-> [id |-> n, StatusCode |-> s, Body |-> b], Err |-> "none"] :
              s \in StatusCodes, b \in Bodies}

\* Line 149.
DoRequest ==
    /\ pc = "request"
    /\ \E o \in Outcomes(entry) :
         /\ Resp' = o.Resp
         /\ Err' = o.Err
         /\ log' = Append(log, Event("Client.Do", entry, times, o.Resp, o.Err, RespBody))
    /\ pc' = "error"
    /\ UNCHANGED <<times, config, RespBody, frames, entry, closed>>

\* Lines 153-159: the header timeout.
DoTimeout ==
    /\ pc = "error"
    /\ Err = "timeout"
    /\ IF RetryFunc
         THEN /\ log' = Append(log, Event("RetryFunc", entry, times, Resp, Err, RespBody))
              /\ Enter
         ELSE /\ pc' = "return"
              /\ UNCHANGED <<log, frames, entry>>
    /\ UNCHANGED <<times, config, Resp, Err, RespBody, closed>>

\* DoOtherError retrying the way the status "retry" does.
DoOtherError_Retries ==
    /\ pc = "error"
    /\ Err = "other"
    /\ log' = IF FailedFunc
                THEN Append(log, Event("FailedFunc", entry, times, Resp, Err, RespBody))
                ELSE log
    /\ Enter
    /\ UNCHANGED <<times, config, Resp, Err, RespBody, closed>>

\* Lines 162-168: any other transport error.
DoOtherError ==
    /\ pc = "error"
    /\ Err = "other"
    /\ log' = IF FailedFunc
                THEN Append(log, Event("FailedFunc", entry, times, Resp, Err, RespBody))
                ELSE log
    /\ pc' = "return"
    /\ UNCHANGED <<times, config, Resp, Err, RespBody, frames, entry, closed>>

\* Lines 170-174: a response arrived; its release is deferred.
DoDefer ==
    /\ pc = "error"
    /\ Err = "none"
    /\ frames' = [frames EXCEPT ![Len(frames)] = TRUE]
    /\ pc' = "status"
    /\ UNCHANGED <<times, config, Resp, Err, RespBody, entry, closed, log>>

\* Line 179: v, ok := StatusCodeMap[c.Resp.StatusCode]; "" when !ok.
Lookup(code) ==
    IF code \in DOMAIN StatusCodeMap THEN StatusCodeMap[code] ELSE ""

\* DoSuccess invoking SucceedFunc before c.RespBody is assigned.
DoSuccess_HookBeforeStore ==
    /\ pc = "status"
    /\ Lookup(Resp.StatusCode) = "success"
    /\ \E readOk \in BOOLEAN :
         IF readOk
           THEN /\ RespBody' = Resp.Body
                /\ log' = log
                     \o <<Event("ReadAll", entry, times, Resp, "none", RespBody)>>
                     \o (IF SucceedFunc
                           THEN <<Event("SucceedFunc", entry, times, Resp, Err, RespBody)>>
                           ELSE <<>>)
           ELSE /\ RespBody' = RespBody
                /\ log' = Append(log, Event("ReadAll", entry, times, Resp, "other", RespBody))
    /\ pc' = "return"
    /\ UNCHANGED <<times, config, Resp, Err, frames, entry, closed>>

\* Lines 182-195: case "success".
DoSuccess ==
    /\ pc = "status"
    /\ Lookup(Resp.StatusCode) = "success"
    /\ \E readOk \in BOOLEAN :
         IF readOk
           THEN /\ RespBody' = Resp.Body
                /\ log' = log
                     \o <<Event("ReadAll", entry, times, Resp, "none", RespBody)>>
                     \o (IF SucceedFunc
                           THEN <<Event("SucceedFunc", entry, times, Resp, Err, RespBody')>>
                           ELSE <<>>)
           ELSE /\ RespBody' = RespBody
                /\ log' = Append(log, Event("ReadAll", entry, times, Resp, "other", RespBody))
    /\ pc' = "return"
    /\ UNCHANGED <<times, config, Resp, Err, frames, entry, closed>>

\* DoRetry re-entering only when RetryFunc is bound, as lines 154-158 do.
DoRetry_OnlyWhenBound ==
    /\ pc = "status"
    /\ Lookup(Resp.StatusCode) = "retry"
    /\ IF RetryFunc
         THEN /\ log' = Append(log, Event("RetryFunc", entry, times, Resp, Err, RespBody))
              /\ Enter
         ELSE /\ pc' = "return"
              /\ UNCHANGED <<log, frames, entry>>
    /\ UNCHANGED <<times, config, Resp, Err, RespBody, closed>>

\* Lines 197-204: case "retry".
DoRetry ==
    /\ pc = "status"
    /\ Lookup(Resp.StatusCode) = "retry"
    /\ log' = IF RetryFunc
                THEN Append(log, Event("RetryFunc", entry, times, Resp, Err, RespBody))
                ELSE log
    /\ Enter
    /\ UNCHANGED <<times, config, Resp, Err, RespBody, closed>>

\* Line 206: the category whose case invokes FailedFunc.
FailedCase == "file"

\* DoOther invoking FailedFunc for every value that is neither "success"
\* nor "retry".
DoOther_FailsByDefault ==
    /\ pc = "status"
    /\ Lookup(Resp.StatusCode) \notin {"success", "retry"}
    /\ log' = IF FailedFunc
                THEN Append(log, Event("FailedFunc", entry, times, Resp, Err, RespBody))
                ELSE log
    /\ pc' = "return"
    /\ UNCHANGED <<times, config, Resp, Err, RespBody, frames, entry, closed>>

\* Lines 206-226: case "file", case "start", case "end", and the fall
\* through for a value no case names or a code absent from the table.
DoOther ==
    /\ pc = "status"
    /\ Lookup(Resp.StatusCode) \notin {"success", "retry"}
    /\ log' = IF Lookup(Resp.StatusCode) = FailedCase /\ FailedFunc
                THEN Append(log, Event("FailedFunc", entry, times, Resp, Err, RespBody))
                ELSE log
    /\ pc' = "return"
    /\ UNCHANGED <<times, config, Resp, Err, RespBody, frames, entry, closed>>

\* The innermost activation returns: its deferred function (lines 170-174)
\* runs and closes the Body of whatever c.Resp holds now; then its caller,
\* which was at `return c.Do()`, returns in turn.
DoReturn ==
    /\ pc = "return"
    /\ closed' = IF frames[Len(frames)] /\ Resp # NoResp
                   THEN closed \cup {Resp.id}
                   ELSE closed
    /\ frames' = SubSeq(frames, 1, Len(frames) - 1)
    /\ pc' = IF Len(frames) = 1 THEN "done" ELSE "return"
    /\ UNCHANGED <<times, config, Resp, Err, RespBody, entry, log>>

Next ==
    \/ Do
    \/ DoStartFunc
    \/ DoEndFunc
    \/ DoBudget
    \/ DoRequest
    \/ DoTimeout
    \/ DoOtherError
    \/ DoDefer
    \/ DoSuccess
    \/ DoRetry
    \/ DoOther
    \/ DoReturn

Spec == Init /\ [][Next]_vars

\* Do() is one sequential call stack: as long as the transport and the
\* hooks return, its next step is taken.
LiveSpec == Spec /\ WF_vars(Next)

(***************************************************************************)
(* The Context over its lifetime: the caller calls Do() and Upload() on    *)
(* the same Context again and again.  Upload() (lines 240-313) never       *)
(* calls itself; its retry path calls Do().                                *)
(***************************************************************************)

\* Number of top-level calls made on one Context.
MaxCalls == 2

\* Largest MaxTimes tried when several calls are made.
MaxLifeTimes == 2

\* A freshly built Context, as in Init, with every hook bound except
\* perhaps RetryFunc, the one hook whose presence decides the control flow
\* (lines 154 and 259).
LifeInit ==
    /\ Init
    /\ MaxTimes <= MaxLifeTimes
    /\ StartFunc /\ EndFunc /\ FailedFunc /\ SucceedFunc

\* The top-level calls made so far.
Calls == {i \in DOMAIN log : log[i].ev \in {"Do()", "Upload()"}}

\* The caller may call: no call is running, and fewer than MaxCalls were made.
MayCall ==
    /\ pc \in {"idle", "done"}
    /\ Cardinality(Calls) < MaxCalls

\* The caller calls c.Do(), on a fresh or a used Context.
CallDo ==
    /\ MayCall
    /\ log' = Append(log, Event("Do()", entry + 1, times, Resp, Err, RespBody))
    /\ Enter
    /\ UNCHANGED <<times, config, Resp, Err, RespBody, closed>>

\* The caller calls c.Upload(filePath); c is not nil (line 242).
CallUpload ==
    /\ MayCall
    /\ log' = Append(log, Event("Upload()", entry + 1, times, Resp, Err, RespBody))
    /\ frames' = Append(frames, FALSE)
    /\ entry' = entry + 1
    /\ pc' = "u_budget"
    /\ UNCHANGED <<times, config, Resp, Err, RespBody, closed>>

\* UploadBudget without c.times++.
UploadBudget_NoCount ==
    /\ pc = "u_budget"
    /\ times' = times
    /\ IF BudgetExceeded(times', MaxTimes)
         THEN /\ log' = Append(log, Event("exceeded", entry, times', Resp, Err, RespBody))
              /\ pc' = "return"
         ELSE /\ log' = log
              /\ pc' = "u_request"
    /\ UNCHANGED <<config, Resp, Err, RespBody, frames, entry, closed>>

\* Lines 247-252.
UploadBudget ==
    /\ pc = "u_budget"
    /\ times' = times + 1
    /\ IF BudgetExceeded(times', MaxTimes)
         THEN /\ log' = Append(log, Event("exceeded", entry, times', Resp, Err, RespBody))
              /\ pc' = "return"
         ELSE /\ log' = log
              /\ pc' = "u_request"
    /\ UNCHANGED <<config, Resp, Err, RespBody, frames, entry, closed>>

\* Line 255.
UploadRequest ==
    /\ pc = "u_request"
    /\ \E o \in Outcomes(entry) :
         /\ Resp' = o.Resp
         /\ Err' = o.Err
         /\ log' = Append(log, Event("Client.Do", entry, times, o.Resp, o.Err, RespBody))
    /\ pc' = "u_error"
    /\ UNCHANGED <<times, config, RespBody, frames, entry, closed>>

\* Lines 258-264: the header timeout; the retry is `return c.Do()`.
UploadTimeout ==
    /\ pc = "u_error"
    /\ Err = "timeout"
    /\ IF RetryFunc
         THEN /\ log' = Append(log, Event("RetryFunc", entry, times, Resp, Err, RespBody))
              /\ Enter
         ELSE /\ pc' = "return"
              /\ UNCHANGED <<log, frames, entry>>
    /\ UNCHANGED <<times, config, Resp, Err, RespBody, closed>>

\* Lines 267-273: any other transport error.
UploadOtherError ==
    /\ pc = "u_error"
    /\ Err = "other"
    /\ log' = IF FailedFunc
                THEN Append(log, Event("FailedFunc", entry, times, Resp, Err, RespBody))
                ELSE log
    /\ pc' = "return"
    /\ UNCHANGED <<times, config, Resp, Err, RespBody, frames, entry, closed>>

\* Lines 274-278: a response arrived; its release is deferred.
UploadDefer ==
    /\ pc = "u_error"
    /\ Err = "none"
    /\ frames' = [frames EXCEPT ![Len(frames)] = TRUE]
    /\ pc' = "u_create"
    /\ UNCHANGED <<times, config, Resp, Err, RespBody, entry, closed, log>>

\* Lines 280-312: os.Create; when it fails c.Err is set and Upload returns,
\* otherwise the body is copied to the file chunk by chunk, whatever the
\* status code of the response (the table is not consulted).
UploadCopy ==
    /\ pc = "u_create"
    /\ \E created \in BOOLEAN :
         IF created
           THEN /\ Err' = Err
                /\ log' = Append(log, Event("f.Write", entry, times, Resp, Err, RespBody))
           ELSE /\ Err' = "other"
                /\ log' = log
    /\ pc' = "return"
    /\ UNCHANGED <<times, config, Resp, RespBody, frames, entry, closed>>

LifeNext ==
    \/ CallDo
    \/ CallUpload
    \/ UploadBudget
    \/ UploadRequest
    \/ UploadTimeout
    \/ UploadOtherError
    \/ UploadDefer
    \/ UploadCopy
    \/ DoStartFunc
    \/ DoEndFunc
    \/ DoBudget
    \/ DoRequest
    \/ DoTimeout
    \/ DoOtherError
    \/ DoDefer
    \/ DoSuccess
    \/ DoRetry
    \/ DoOther
    \/ DoReturn

LifeSpec == LifeInit /\ [][LifeNext]_vars

(***************************************************************************)
(* The cookie pool (lines 332-351): goroutines call Add and Get on the one *)
(* CookiePool.  Between Lock and Unlock a call takes its steps one by one, *)
(* so that what the mutex rules out is ruled out by the mutex alone.       *)
(***************************************************************************)

\* Number of calls of Add and Get made in all.
MaxOps == 4

\* The Context plays no part: it stays as built, MaxTimes 0 and no hook.
PoolSpecInit ==
    /\ Init
    /\ MaxTimes = 0
    /\ ~StartFunc /\ ~EndFunc /\ ~RetryFunc /\ ~FailedFunc /\ ~SucceedFunc

\* sync.Mutex.Lock with no regard for the holder.
Lockable_Always(m) == TRUE

\* sync.Mutex.Lock (lines 341, 347) returns only when the mutex is unlocked.
Lockable(m) == m = 0

\* A goroutine calls Add(cookie) with a new cookie, or Get().
PoolCall(w) ==
    /\ ~panicked
    /\ call[w].pc = "idle"
    /\ begun < MaxOps
    /\ begun' = begun + 1
    /\ \E op \in {"add", "get"} :
         call' = [call EXCEPT ![w] =
                    [NoCall EXCEPT !.pc = op, !.arg = IF op = "add" THEN begun' ELSE 0]]
    /\ UNCHANGED <<cookie, mux, panicked, added, gotten, context, sched>>

\* Lines 341 and 347: c.mux.Lock().  (seen: the cookies whose Add had
\* returned when the lock was taken.)
PoolLock(w) ==
    /\ ~panicked
    /\ call[w].pc \in {"add", "get"}
    /\ Lockable(mux)
    /\ mux' = w
    /\ call' = [call EXCEPT ![w].pc = call[w].pc \o "_locked", ![w].seen = added]
    /\ UNCHANGED <<cookie, panicked, added, begun, gotten, context, sched>>

\* Line 343, right-hand side: append(c.cookie, cookie).
AddAppend(w) ==
    /\ ~panicked
    /\ call[w].pc = "add_locked"
    /\ call' = [call EXCEPT ![w].pc = "add_store",
                            ![w].tmp = Append(cookie, call[w].arg)]
    /\ UNCHANGED <<cookie, mux, panicked, added, begun, gotten, context, sched>>

\* Line 343, the assignment to c.cookie.
AddStore(w) ==
    /\ ~panicked
    /\ call[w].pc = "add_store"
    /\ cookie' = call[w].tmp
    /\ call' = [call EXCEPT ![w].pc = "add_unlock"]
    /\ UNCHANGED <<mux, panicked, added, begun, gotten, context, sched>>

\* Line 342: the deferred c.mux.Unlock(); Add returns.
AddUnlock(w) ==
    /\ ~panicked
    /\ call[w].pc = "add_unlock"
    /\ mux' = 0
    /\ added' = added \cup {call[w].arg}
    /\ call' = [call EXCEPT ![w] = NoCall]
    /\ UNCHANGED <<cookie, panicked, begun, gotten, context, sched>>

\* Lines 349-350: n := rand.Int63n(int64(len(c.cookie))), which panics when
\* its argument is 0, and c.cookie[n].  The deferred Unlock runs on the way
\* out of the panic, which nothing recovers.
GetPick(w) ==
    /\ ~panicked
    /\ call[w].pc = "get_locked"
    /\ IF Len(cookie) = 0
         THEN /\ panicked' = TRUE
              /\ mux' = 0
              /\ call' = [call EXCEPT ![w].pc = "panic"]
         ELSE /\ \E n \in 0..(Len(cookie) - 1) :
                   call' = [call EXCEPT ![w].pc = "get_unlock",
                                        ![w].ret = cookie[n + 1]]
              /\ UNCHANGED <<panicked, mux>>
    /\ UNCHANGED <<cookie, added, begun, gotten, context, sched>>

\* Line 348: the deferred c.mux.Unlock(); Get returns the cookie.
GetUnlock(w) ==
    /\ ~panicked
    /\ call[w].pc = "get_unlock"
    /\ mux' = 0
    /\ gotten' = gotten \cup {[ret |-> call[w].ret, seen |-> call[w].seen]}
    /\ call' = [call EXCEPT ![w] = NoCall]
    /\ UNCHANGED <<cookie, panicked, added, begun, context, sched>>

PoolNext ==
    \E w \in Workers :
        \/ PoolCall(w)
        \/ PoolLock(w)
        \/ AddAppend(w)
        \/ AddStore(w)
        \/ AddUnlock(w)
        \/ GetPick(w)
        \/ GetUnlock(w)

PoolSpec == PoolSpecInit /\ [][PoolNext]_vars

(***************************************************************************)
(* The job scheduler.  StartJobGet and the queue are not part of src/;     *)
(* they are modelled from spec.md, sections 4.3 and 4.4.  Its callers are  *)
(* in src/examples/ip_bczs_cn/main.go: the success hook of the first       *)
(* request fills the queue, main starts the jobs, and the failure hook     *)
(* GetIPFailed puts the task of a failed request back into the queue.      *)
(***************************************************************************)

\* How often GetIPFailed puts one task back.
MaxRequeue == 1

\* Every hook is the caller's, as main passes them; the one Context of the
\* model plays no part.
SchedSpecInit == PoolSpecInit

\* main.go:167: IPListSucceed adds a task to the queue, before the jobs
\* are started.
Seed ==
    /\ \A w \in Workers : job[w].pc = "none"
    /\ Len(queue) < NumTasks
    /\ queue' = Append(queue, Len(queue) + 1)
    /\ UNCHANGED <<inflight, job, requeued, runs, returned, context, pool>>

\* main.go:145: gt.StartJobGet(n, queue, ...) starts its workers.
StartJobGet ==
    /\ \A w \in Workers : job[w].pc = "none"
    /\ job' = [w \in Workers |-> [job[w] EXCEPT !.pc = "loop"]]
    /\ UNCHANGED <<queue, inflight, requeued, runs, returned, context, pool>>

\* Spec 4.4: a worker pops a task; the in-flight counter is incremented
\* when the task is popped.
JobPop(w) ==
    /\ job[w].pc = "loop"
    /\ queue # <<>>
    /\ queue' = Tail(queue)
    /\ inflight' = inflight + 1
    /\ job' = [job EXCEPT ![w].pc = "exec", ![w].task = Head(queue)]
    /\ UNCHANGED <<requeued, runs, returned, context, pool>>

\* Spec 4.4: the queue is momentarily empty while a task is in flight: the
\* worker backs off and looks again.
JobWait(w) ==
    /\ job[w].pc = "loop"
    /\ queue = <<>>
    /\ inflight > 0
    /\ job' = [job EXCEPT ![w].waited = TRUE]
    /\ UNCHANGED <<queue, inflight, requeued, runs, returned, context, pool>>

\* JobExit leaving as soon as the queue is empty.
JobExit_OnEmptyQueue(w) ==
    /\ job[w].pc = "loop"
    /\ queue = <<>>
    /\ job' = [job EXCEPT ![w].pc = "exited"]
    /\ UNCHANGED <<queue, inflight, requeued, runs, returned, context, pool>>

\* Spec 4.4: a worker leaves its loop only when it finds the queue empty
\* and the in-flight counter zero.
JobExit(w) ==
    /\ job[w].pc = "loop"
    /\ queue = <<>>
    /\ inflight = 0
    /\ job' = [job EXCEPT ![w].pc = "exited"]
    /\ UNCHANGED <<queue, inflight, requeued, runs, returned, context, pool>>

\* main.go:209-211: GetIPFailed, the FailedFunc of the task's Context, gives
\* the task back to the queue.
GetIPFailed(w) == queue' = Append(queue, job[w].task)

\* The worker runs Do() on the Context of its task; the request fails and
\* FailedFunc runs, or it does not (a task fails MaxRequeue times at most).
JobExecute(w) ==
    /\ job[w].pc = "exec"
    /\ \E failed \in BOOLEAN :
         IF failed /\ requeued[job[w].task] < MaxRequeue
           THEN /\ GetIPFailed(w)
                /\ requeued' = [requeued EXCEPT ![job[w].task] = @ + 1]
           ELSE UNCHANGED <<queue, requeued>>
    /\ runs' = [runs EXCEPT ![job[w].task] = @ + 1]
    /\ job' = [job EXCEPT ![w].pc = "ret"]
    /\ UNCHANGED <<inflight, returned, context, pool>>

\* Spec 4.4: the in-flight counter is decremented when Execute() returns.
JobDone(w) ==
    /\ job[w].pc = "ret"
    /\ inflight' = inflight - 1
    /\ job' = [job EXCEPT ![w].pc = "loop", ![w].task = 0]
    /\ UNCHANGED <<queue, requeued, runs, returned, context, pool>>

\* Spec 4.4: StartJobGet returns after all worker loops have exited.
JobReturn ==
    /\ ~returned
    /\ \A w \in Workers : job[w].pc = "exited"
    /\ returned' = TRUE
    /\ UNCHANGED <<queue, inflight, job, requeued, runs, context, pool>>

SchedNext ==
    \/ Seed
    \/ StartJobGet
    \/ JobReturn
    \/ \E w \in Workers :
         \/ JobPop(w)
         \/ JobWait(w)
         \/ JobExit(w)
         \/ JobExecute(w)
         \/ JobDone(w)

SchedSpec == SchedSpecInit /\ [][SchedNext]_vars

TypeOK ==
    /\ times \in 0..(MaxRetry + 1)
    /\ MaxTimes \in 0..MaxRetry
    /\ hooks \in BOOLEAN \X BOOLEAN \X BOOLEAN \X BOOLEAN \X BOOLEAN
    /\ Err \in {"none", "timeout", "other"}
    /\ RespBody \in Bodies \cup {NoBody}
    /\ pc \in {"idle", "start", "end", "budget", "request", "error",
               "status", "return", "done"}
    /\ frames \in Seq(BOOLEAN)
    /\ entry = IF pc = "idle" THEN 0 ELSE times + (IF pc \in {"start", "end", "budget"} THEN 1 ELSE 0)
    /\ closed \subseteq 1..entry


(***************************************************************************)
(* Reading the log.                                                        *)
(***************************************************************************)

HookNames == {"StartFunc", "EndFunc", "RetryFunc", "FailedFunc", "SucceedFunc"}

\* Positions of the events called name.
Events(name) == {i \in DOMAIN log : log[i].ev = name}

\* Positions of the events called name of activation n.
At(name, n) == {i \in Events(name) : log[i].entry = n}

Count(name) == Cardinality(Events(name))

\* Activation n has acted on the outcome of its network call.
Handled(n) == n < entry \/ pc \in {"return", "done"}

\* The network attempts that ended as a response of category cat.
Responses(cat) ==
    {i \in Events("Client.Do") :
        log[i].Err = "none" /\ Lookup(log[i].Resp.StatusCode) = cat}

\* The network attempts that ended in the transport error err.
Errors(err) == {i \in Events("Client.Do") : log[i].Err = err}

(***************************************************************************)
(* C1                                                                      *)
(***************************************************************************)

\* C1: a call of Do() on a Context with times = 0 and MaxTimes = k makes at
\* most k network attempts (Client.Do calls), whatever the transport
\* returns; with k = 0 it makes none.
C1_AtMostMaxTimesAttempts == Count("Client.Do") <= MaxTimes

\* A finished run that used the whole budget of at least two attempts.
C1_Witness ==
    /\ pc = "done"
    /\ MaxTimes >= 2
    /\ Count("Client.Do") = MaxTimes

(***************************************************************************)
(* C2                                                                      *)
(***************************************************************************)

\* What C2 says of every attempt whose "success" response was read, apart
\* from the number of SucceedFunc invocations.
C2_Rest(i) ==
    LET n == log[i].entry IN
    /\ RespBody = log[i].Resp.Body
    /\ \A j \in At("SucceedFunc", n) :
         /\ j > i
         /\ log[j].RespBody = log[i].Resp.Body
         /\ (n = 1 => log[j].times = 1)
    /\ At("RetryFunc", n) = {}
    /\ At("FailedFunc", n) = {}
    /\ entry = n
    /\ \A j \in Events("Client.Do") : log[j].entry <= n

\* The attempts that received a "success" response and read its body.
C2_Read == {i \in Events("ReadAll") : log[i].Err = "none"}

\* C2 as stated: an attempt that receives a "success" response with a
\* readable body stores the body in RespBody before SucceedFunc runs,
\* invokes SucceedFunc exactly once and RetryFunc and FailedFunc not at all,
\* and is followed by no further attempt; on the first attempt SucceedFunc
\* sees times = 1.
C2_AsStated ==
    \A i \in C2_Read :
        /\ Cardinality(At("SucceedFunc", log[i].entry)) = 1
        /\ C2_Rest(i)

\* C2 amended: the same, with SucceedFunc invoked exactly once when it is
\* bound and not at all when it is nil (line 192).
C2_SuccessHandledOnce ==
    \A i \in C2_Read :
        /\ Cardinality(At("SucceedFunc", log[i].entry)) = (IF SucceedFunc THEN 1 ELSE 0)
        /\ C2_Rest(i)

\* A finished run whose second attempt succeeded and ran SucceedFunc.
C2_Witness ==
    /\ pc = "done"
    /\ SucceedFunc
    /\ \E i \in C2_Read : log[i].entry = 2 /\ At("SucceedFunc", 2) # {}

(***************************************************************************)
(* C3                                                                      *)
(***************************************************************************)

\* A finished run with MaxTimes >= 1 all of whose attempts returned a
\* status of category "retry".
C3_AllRetry ==
    /\ pc = "done"
    /\ MaxTimes >= 1
    /\ Events("Client.Do") = Responses("retry")

\* What C3 says of such a run, apart from the number of RetryFunc
\* invocations.
C3_Rest ==
    /\ Count("Client.Do") = MaxTimes
    /\ \A n \in 1..MaxTimes : Cardinality(At("Client.Do", n)) = 1
    /\ Count("FailedFunc") = 0
    /\ Count("SucceedFunc") = 0
    /\ entry = MaxTimes + 1
    /\ At("exceeded", MaxTimes + 1) # {}
    /\ At("Client.Do", MaxTimes + 1) = {}

\* C3 as stated: when every attempt of a run with MaxTimes = k >= 1 returns
\* a "retry" status, k attempts are made, RetryFunc is invoked exactly k
\* times, FailedFunc and SucceedFunc never, and the call made after the
\* k-th attempt stops on the budget check without a network attempt.
C3_AsStated == C3_AllRetry => (Count("RetryFunc") = MaxTimes /\ C3_Rest)

\* C3 amended: the same, with RetryFunc invoked once per attempt (k times)
\* when it is bound and not at all when it is nil (line 201).
C3_AllRetryExhaustsBudget ==
    C3_AllRetry =>
        /\ \A n \in 1..MaxTimes :
             Cardinality(At("RetryFunc", n)) = (IF RetryFunc THEN 1 ELSE 0)
        /\ Count("RetryFunc") = (IF RetryFunc THEN MaxTimes ELSE 0)
        /\ C3_Rest

\* A finished all-retry run of at least two attempts with RetryFunc bound.
C3_Witness ==
    /\ C3_AllRetry
    /\ RetryFunc
    /\ MaxTimes >= 2
    /\ Count("RetryFunc") = MaxTimes

(***************************************************************************)
(* C4                                                                      *)
(***************************************************************************)

\* C4: an attempt that receives a response of category "fail", with
\* FailedFunc bound, invokes FailedFunc exactly once and stops: no retry,
\* no SucceedFunc, no RetryFunc.
C4_FailInvokesFailedFunc ==
    \A i \in Responses("fail") :
        LET n == log[i].entry IN
        (FailedFunc /\ Handled(n)) =>
            /\ Cardinality(At("FailedFunc", n)) = 1
            /\ At("SucceedFunc", n) = {}
            /\ At("RetryFunc", n) = {}
            /\ entry = n

(***************************************************************************)
(* C5                                                                      *)
(***************************************************************************)

\* C5: an attempt that ends in a header timeout while retry budget remains
\* is retried whether or not RetryFunc is bound: RetryFunc is invoked when
\* bound, and in both cases Do() is entered again.
C5_TimeoutAlwaysRetried ==
    \A i \in Errors("timeout") :
        LET n == log[i].entry IN
        (log[i].times < MaxTimes /\ Handled(n)) =>
            /\ Cardinality(At("RetryFunc", n)) = (IF RetryFunc THEN 1 ELSE 0)
            /\ entry > n

(***************************************************************************)
(* C6                                                                      *)
(***************************************************************************)

\* C6: an attempt that ends in a transport error other than the header
\* timeout ends the run: FailedFunc is invoked exactly once if bound,
\* RetryFunc and SucceedFunc are not invoked for the attempt, and no
\* further activation or network attempt follows, even with budget left.
C6_OtherErrorIsTerminal ==
    \A i \in Errors("other") :
        LET n == log[i].entry IN
        /\ entry = n
        /\ \A j \in Events("Client.Do") : j <= i
        /\ At("RetryFunc", n) = {}
        /\ At("SucceedFunc", n) = {}
        /\ Handled(n) =>
             Cardinality(At("FailedFunc", n)) = (IF FailedFunc THEN 1 ELSE 0)

\* A finished run whose first attempt failed that way with FailedFunc bound
\* and two more attempts allowed.
C6_Witness ==
    /\ pc = "done"
    /\ FailedFunc
    /\ MaxTimes = 3
    /\ At("FailedFunc", 1) # {}
    /\ \E i \in Errors("other") : log[i].entry = 1

(***************************************************************************)
(* C7                                                                      *)
(***************************************************************************)

\* C7: when the outermost Do() has returned, the Body of every response
\* received during the run has been closed, the earlier responses of a
\* chain of attempts included.
C7_EveryBodyClosed ==
    pc = "done" =>
        \A i \in Events("Client.Do") :
            log[i].Resp # NoResp => log[i].Resp.id \in closed

(***************************************************************************)
(* C8                                                                      *)
(***************************************************************************)

\* C8: an activation of Do() that finds the budget exceeded (times >
\* MaxTimes after the increment) invokes no hook at all and does no network
\* I/O, for every MaxTimes >= 0, MaxTimes = 0 on a fresh Context included.
C8_ExceededEntryIsSilent ==
    \A i \in Events("exceeded") :
        LET n == log[i].entry IN
        /\ \A h \in HookNames : At(h, n) = {}
        /\ At("Client.Do", n) = {}

(***************************************************************************)
(* C9                                                                      *)
(***************************************************************************)

\* C9: with MaxTimes = k >= 1 and EndFunc bound, EndFunc is invoked at the
\* top of the k-th activation, before the k-th network call, which is then
\* made; a run that ends before the k-th attempt never invokes EndFunc.
C9_EndFuncBeforeLastAttempt ==
    (EndFunc /\ MaxTimes >= 1) =>
        /\ \A i \in Events("EndFunc") :
             /\ log[i].entry = MaxTimes
             /\ (pc \in {"return", "done"} => At("Client.Do", MaxTimes) # {})
        /\ \A j \in At("Client.Do", MaxTimes) :
             \E i \in At("EndFunc", MaxTimes) : i < j

(***************************************************************************)
(* C10                                                                     *)
(***************************************************************************)

\* C10: in a run of Do() on a fresh Context with StartFunc bound, StartFunc
\* is invoked exactly once, in the first activation and before the first
\* network call, and never again on a recursive entry.
C10_StartFuncOnce ==
    StartFunc =>
        /\ Count("StartFunc") = (IF pc \in {"idle", "start"} /\ entry <= 1 THEN 0 ELSE 1)
        /\ \A i \in Events("StartFunc") :
             /\ log[i].entry = 1
             /\ \A j \in Events("Client.Do") : i < j

\* A finished run of three attempts with StartFunc bound.
C10_Witness ==
    /\ pc = "done"
    /\ StartFunc
    /\ Count("Client.Do") = 3
    /\ Count("StartFunc") = 1

(***************************************************************************)
(* C14                                                                     *)
(***************************************************************************)

\* The hooks that report the outcome of an attempt.
OutcomeHooks == {"SucceedFunc", "FailedFunc", "RetryFunc"}

\* What C14 says of the attempts: each ends the run, with at most the one
\* hook of its outcome, or schedules exactly one re-entry, never both.
C14_OneOutcome ==
    /\ \A i \in Events("Client.Do") :
         LET n == log[i].entry IN
         /\ Cardinality(UNION {At(h, n) : h \in OutcomeHooks}) <= 1
         /\ (At("SucceedFunc", n) # {} \/ At("FailedFunc", n) # {}) => entry = n
         /\ (At("RetryFunc", n) # {} /\ Handled(n)) => entry > n
         /\ Cardinality(At("Client.Do", n)) = 1
    /\ entry <= Count("Client.Do") + 1

\* C14 as stated: every attempt is terminal or schedules exactly one retry,
\* never both; times starts at 0 and is incremented once per attempt, so
\* that whenever Do() returns times is the number of network attempts made.
C14_AsStated ==
    /\ C14_OneOutcome
    /\ (pc = "idle" => times = 0)
    /\ (pc \in {"return", "done"} => times = Count("Client.Do"))

\* C14 amended: times is incremented once per activation of Do(), so that
\* whenever Do() returns times is the number of activations: the number of
\* network attempts, plus one when the last activation stopped on the
\* budget check.
C14_OneOutcomeOneIncrement ==
    /\ C14_OneOutcome
    /\ (pc = "idle" => times = 0)
    /\ (pc \in {"return", "done"} =>
          /\ times = entry
          /\ times = Count("Client.Do") + (IF Events("exceeded") # {} THEN 1 ELSE 0))

\* A finished run of two attempts, the first retried, the second stopped
\* by FailedFunc.
C14_Witness ==
    /\ pc = "done"
    /\ At("RetryFunc", 1) # {}
    /\ At("FailedFunc", 2) # {}
    /\ times = 2

(***************************************************************************)
(* C16                                                                     *)
(***************************************************************************)

\* C16: when the body of a "success" response cannot be read, the attempt
\* is a terminal failure: no re-entry, no RetryFunc, no SucceedFunc,
\* RespBody unchanged, and FailedFunc invoked when bound.
C16_ReadFailureReachesFailedFunc ==
    \A i \in Events("ReadAll") :
        LET n == log[i].entry IN
        log[i].Err # "none" =>
            /\ entry = n
            /\ At("RetryFunc", n) = {}
            /\ At("SucceedFunc", n) = {}
            /\ RespBody = log[i].RespBody
            /\ (FailedFunc => Cardinality(At("FailedFunc", n)) = 1)

(***************************************************************************)
(* C17                                                                     *)
(***************************************************************************)

\* C17: for every MaxTimes >= 0 and whatever the transport returns, a run
\* of Do() ends, after at most MaxTimes + 1 activations of Do().
C17_Terminates == [](entry <= MaxTimes + 1) /\ <>(pc = "done")

\* A finished run that took all MaxTimes + 1 activations.
C17_Witness ==
    /\ pc = "done"
    /\ MaxTimes >= 2
    /\ entry = MaxTimes + 1
    /\ Errors("timeout") # {}

(***************************************************************************)
(* C18                                                                     *)
(***************************************************************************)

\* The attempts whose response is of category "start" or "end" or has a
\* status code absent from the table.
C18_Unhandled == Responses("start") \cup Responses("end") \cup Responses("")

\* C18: such an attempt is a terminal stop without effect: SucceedFunc,
\* FailedFunc and RetryFunc are not invoked, RespBody is unchanged and no
\* further activation or attempt follows.
C18_StartEndUnmappedStop ==
    \A i \in C18_Unhandled :
        LET n == log[i].entry IN
        /\ \A h \in OutcomeHooks : At(h, n) = {}
        /\ RespBody = log[i].RespBody
        /\ entry = n
        /\ \A j \in Events("Client.Do") : j <= i

\* A finished run, every hook bound, whose second attempt got a response of
\* category "start".
C18_Witness ==
    /\ pc = "done"
    /\ FailedFunc /\ RetryFunc /\ SucceedFunc
    /\ \E i \in Responses("start") : log[i].entry = 2

(***************************************************************************)
(* C12                                                                     *)
(***************************************************************************)

\* The activations that are activations of Upload().
UploadEntries == {log[i].entry : i \in Events("Upload()")}

\* The network attempts made by an activation of Upload().
UploadAttempts == {i \in Events("Client.Do") : log[i].entry \in UploadEntries}

\* C12: Upload() classifies an attempt as Do() does: a response of category
\* "retry" is retried (RetryFunc when bound, then a re-entry), a header
\* timeout is retried when RetryFunc is bound, and the attempt that follows
\* a retried attempt of Upload() is again an attempt of Upload(), which
\* writes to the file and leaves RespBody alone.
C12_UploadClassifiesAsDo ==
    \A i \in UploadAttempts :
        LET n == log[i].entry IN
        Handled(n) =>
            /\ (i \in Responses("retry") =>
                  /\ Cardinality(At("RetryFunc", n)) = (IF RetryFunc THEN 1 ELSE 0)
                  /\ entry > n)
            /\ ((i \in Errors("timeout") /\ RetryFunc) => entry > n)
            /\ (At("RetryFunc", n) # {} => n + 1 \in UploadEntries)

(***************************************************************************)
(* C19                                                                     *)
(***************************************************************************)

\* C19: over all the top-level calls of Do() and Upload() on one Context
\* the network attempts number at most MaxTimes, an activation entered with
\* times >= MaxTimes makes no network attempt, and times never decreases.
C19_BudgetPerContext ==
    /\ [](/\ Count("Client.Do") <= MaxTimes
          /\ \A i \in Events("Client.Do") : log[i].times <= MaxTimes)
    /\ [][times' >= times]_vars

\* Two attempts made by two different top-level calls, one of each kind,
\* used up a budget of two, and the re-entry that followed has returned
\* without I/O.
C19_Witness ==
    /\ pc = "done"
    /\ MaxTimes = 2
    /\ Cardinality(Calls) = 2
    /\ \E i \in UploadAttempts : \E j \in Events("Client.Do") \ UploadAttempts :
         /\ log[i].entry = 1
         /\ log[j].entry = 2
    /\ At("Do()", 2) # {}
    /\ At("exceeded", 3) # {}

(***************************************************************************)
(* C20                                                                     *)
(***************************************************************************)

\* C20: over the lifetime of a Context whose MaxTimes is fixed EndFunc is
\* invoked at most once, times being larger by one at every activation (the
\* n-th activation leaves it at n) and equal to MaxTimes when EndFunc runs;
\* StartFunc and EndFunc are invoked by the same activation only when
\* MaxTimes = 0.
C20_EndFuncAtMostOnce ==
    /\ Count("EndFunc") <= 1
    /\ \A i \in Events("EndFunc") : log[i].times = MaxTimes
    /\ \A i \in Events("Client.Do") \cup Events("exceeded") :
         log[i].times = log[i].entry
    /\ \A i \in Events("StartFunc") : \A j \in Events("EndFunc") :
         log[i].entry = log[j].entry => MaxTimes = 0

\* EndFunc ran once, in the last activation of the first call of Do(), and
\* a second call of Do() has returned.
C20_Witness ==
    /\ pc = "done"
    /\ MaxTimes = 2
    /\ Events("Upload()") = {}
    /\ At("EndFunc", 3) # {}
    /\ At("Do()", 4) # {}
    /\ Count("EndFunc") = 1

(***************************************************************************)
(* C11                                                                     *)
(***************************************************************************)

\* C11: a Get() returns one of the cookies that were added, and a Get() on
\* an empty pool fails with an error instead of panicking.
C11_GetNeverPanics ==
    /\ \A g \in gotten : g.ret \in added
    /\ ~panicked

(***************************************************************************)
(* C15                                                                     *)
(***************************************************************************)

\* The goroutines between Lock and Unlock.
InCritical ==
    {w \in Workers : call[w].pc \in {"add_locked", "add_store", "add_unlock",
                                     "get_locked", "get_unlock"}}

\* The goroutines in a call of Add.
Adding ==
    {w \in Workers : call[w].pc \in {"add", "add_locked", "add_store", "add_unlock"}}

\* The cookies in the pool.
Pooled == {cookie[i] : i \in DOMAIN cookie}

\* C15: however the calls of Add and Get of several goroutines interleave,
\* at most one of them is between Lock and Unlock; no Add is lost (the pool
\* holds every added cookie once, and nothing else once no Add is running);
\* and a Get returns a cookie whose Add had returned before the Get took
\* the lock.
C15_PoolIsMutuallyExclusive ==
    /\ Cardinality(InCritical) <= 1
    /\ added \subseteq Pooled
    /\ Cardinality(Pooled) = Len(cookie)
    /\ (Adding = {} => Pooled = added)
    /\ \A g \in gotten : g.ret \in g.seen

\* A Get has returned a cookie, and an Add is between Lock and Unlock, its
\* cookie appended but not yet stored, while another goroutine waits in Get
\* for the lock.
C15_Witness ==
    /\ gotten # {}
    /\ \E v, w \in Workers :
         /\ call[v].pc = "add_store"
         /\ call[w].pc = "get"
         /\ mux = v
    /\ Len(cookie) = 1

(***************************************************************************)
(* C13                                                                     *)
(***************************************************************************)

\* The tasks that wait in the queue or are held by a worker.
Unfinished ==
    {queue[i] : i \in DOMAIN queue}
        \cup {job[w].task : w \in {v \in Workers : job[v].pc \in {"exec", "ret"}}}

====
